---------------------------- MODULE Spec2Model ----------------------------
(***************************************************************************)
(* Model of the collection store (src-tauri/src/database.rs) and of the    *)
(* local-network sync service (src-tauri/src/sync.rs) of mediatracker.     *)
(*                                                                         *)
(* Spec     : one store, its operations called one after the other, and    *)
(*            the two HTTP handlers of the sync server in front of it.     *)
(* SpecSync : the peer registry fed by the mDNS discovery listener.        *)
(* SpecServer : start_server calls on one SyncService, step by step.       *)
(* SpecConc : two threads calling the store, the lock and the file write   *)
(*            step by step.                                                *)
(* SpecLocks : the store mutex and the registry lock, taken and released   *)
(*            by the store's callers, get_known_peers and the listener.    *)
(* SpecListeners : the registry fed by the listeners of two start_server   *)
(*            calls.                                                       *)
(* SpecReplicas : two nodes edited apart, then merging each other's data.  *)
(* SpecSearch : the search cache of web_search (main.rs).                  *)
(***************************************************************************)
EXTENDS Integers, Sequences, FiniteSets, TLC

VARIABLES cache,      \* Database.cache: the in-memory CollectionData
          last,       \* history: the last mutating store call (op, arguments, cache before it, result)
          response,   \* body of the last GET /sync/data answered since that call
          peers,      \* SyncService.peers: fullname -> PeerInfo
          listener,   \* the discovery thread: "none", "running" or "dead"
          clock,      \* SystemTime::now() in seconds
          lastEvent,  \* history: the last discovery event the listener handled
          prePeers,   \* history: the registry before that event
          known,      \* what get_known_peers() returned since that event
          running,    \* SyncService.running
          srv,        \* the start_server calls: position and history of each
          announcements, \* mdns.register calls that returned Ok
          spawned,    \* discovery threads spawned
          socket,     \* the call whose listener holds the sync port, 0 for none
          starts,     \* start_server calls made
          disk,       \* collection.json
          lock,       \* the thread holding Database.cache's mutex, 0 for none
          thr,        \* the threads calling the store: position and history of each
          base,       \* history: the cache when the calls in progress began
          writesFailed, \* history: some fs::write has failed
          regHeld,    \* the threads holding SyncService.peers' RwLock
          second,     \* the discovery thread of a second start_discovery call
          rep,        \* the caches of two nodes
          merged,     \* the nodes that have merged the other node's data
          removed,    \* history: per node, the (user, id) removed since the nodes last agreed
          search_cache, \* AppState.search_cache: cache_key -> SearchCacheEntry
          now_ms,     \* SystemTime::now() in web_search
          searched    \* history: the last web_search call

storeVars == <<cache, last, response>>
syncVars  == <<peers, listener, clock, lastEvent, prePeers, known>>
serverVars == <<running, srv, announcements, spawned, socket, starts>>
concVars  == <<disk, lock, thr, base, writesFailed>>
replicaVars == <<rep, merged, removed>>
searchVars == <<search_cache, now_ms, searched>>
restVars  == <<regHeld, second, rep, merged, removed, search_cache, now_ms, searched>>
vars      == <<cache, last, response, peers, listener, clock, lastEvent, prePeers, known,
               running, srv, announcements, spawned, socket, starts, disk, lock, thr, base,
               writesFailed, regHeld, second, rep, merged, removed, search_cache, now_ms,
               searched>>

----------------------------------------------------------------------------
(* Bounds of the model *)

\* longest item list of one user in an incoming payload or an import batch
MaxIncomingItems == 2
\* longest users list of an incoming payload
MaxIncomingUsers == 2
\* most user records and items, together, one payload carries
MaxPayload == 2
\* most user records and items, together, the store holds
MaxStore == 2
\* greatest last_edited_at in the model
MaxTs == 2
\* greatest value of the clock
MaxClock == 1
\* start_server calls that may be in progress together
MaxStartCalls == 2
\* start_server calls made in all
MaxStarts == 3
\* requests one listener serves
MaxServed == 1
\* threads calling the store together
MaxThreads == 2
\* items and user records a replica holds after a local edit
MaxReplica == 2
\* main.rs: SEARCH_CACHE_MAX_ENTRIES is 512 and SEARCH_CACHE_TTL_MS two hours;
\* the model runs web_search's comparisons against a cache of two entries
\* that live one unit of time, the clock reading 0..MaxNow
SEARCH_CACHE_MAX_ENTRIES == 2
SEARCH_CACHE_TTL_MS == 1
MaxNow == 2

StartCalls == 1..MaxStartCalls
Threads    == 1..MaxThreads

\* the two nodes
Replicas == {"X", "Y"}

----------------------------------------------------------------------------
(* Data model: models.rs *)

Usernames == {"alice", "bob"}
Ids       == {"1", "2"}

\* Option<i64>: None is <<>>, Some(t) is <<t>>
None       == <<>>
Some(t)    == <<t>>

\* The contents an item may have, title standing for every field but id and
\* last_edited_at: two that were never edited, and one per edit time.
Versions == {[title |-> "a", last_edited_at |-> None],
             [title |-> "b", last_edited_at |-> None]}
       \cup {[title |-> "c", last_edited_at |-> Some(t)] : t \in 1..MaxTs}

\* MediaItem
MediaItem == {[id |-> i, title |-> v.title, last_edited_at |-> v.last_edited_at] :
                i \in Ids, v \in Versions}

\* UserRecord
UserRecord == {[username |-> u, password_hash |-> "p", created_at |-> 1] : u \in Usernames}
         \cup {[username |-> u, password_hash |-> "q", created_at |-> 2] : u \in Usernames}

SeqsUpTo(S, n) == UNION {[1..k -> S] : k \in 0..n}

RECURSIVE SumLen(_, _)
SumLen(f, D) == IF D = {} THEN 0
                ELSE LET d == CHOOSE x \in D : TRUE
                     IN  Len(f[d]) + SumLen(f, D \ {d})

\* number of user records and items a CollectionData holds
Size(data) == Len(data.users) + SumLen(data.items_by_user, DOMAIN data.items_by_user)

\* HashMap<String, Vec<MediaItem>>: a function whose domain is the set of keys;
\* the maps with at most n items in all
ItemMaps(n) == UNION {{m \in [D -> SeqsUpTo(MediaItem, IF n < MaxIncomingItems THEN n ELSE MaxIncomingItems)] :
                          SumLen(m, D) <= n} : D \in SUBSET Usernames}

\* CollectionData::default()
DefaultCollectionData == [items |-> <<>>, users |-> <<>>, items_by_user |-> <<>>]

\* the CollectionData bodies a peer may POST
Payloads == UNION {[items : {<<>>}, users : [1..k -> UserRecord], items_by_user : ItemMaps(MaxPayload - k)] :
                     k \in 0..(IF MaxPayload < MaxIncomingUsers THEN MaxPayload ELSE MaxIncomingUsers)}

----------------------------------------------------------------------------
(* database.rs *)

\* item.last_edited_at.unwrap_or(0)
Ts(item) == IF item.last_edited_at = None THEN 0 ELSE item.last_edited_at[1]

\* local_items.iter().position(|i| i.id == id): 0 stands for None
Position(list, id) ==
    IF \E k \in 1..Len(list) : list[k].id = id
    THEN CHOOSE k \in 1..Len(list) :
             /\ list[k].id = id
             /\ \A j \in 1..(k - 1) : list[j].id # id
    ELSE 0

\* the loop body without the lookup: every incoming item is pushed
MergeItem_AlwaysPush(local_items, item) == Append(local_items, item)

\* the loop body updating by remove and push instead of in place
MergeItem_MoveToEnd(local_items, item) ==
    LET existing_idx == Position(local_items, item.id)
    IN  IF existing_idx # 0
        THEN IF Ts(item) > Ts(local_items[existing_idx])
             THEN SubSeq(local_items, 1, existing_idx - 1)
                     \o SubSeq(local_items, existing_idx + 1, Len(local_items)) \o <<item>>
             ELSE local_items
        ELSE Append(local_items, item)

\* the loop body without the timestamp test: the incoming item always replaces
MergeItem_AlwaysUpdate(local_items, item) ==
    LET existing_idx == Position(local_items, item.id)
    IN  IF existing_idx # 0
        THEN [local_items EXCEPT ![existing_idx] = item]
        ELSE Append(local_items, item)

\* the loop body with the timestamp test turned around
MergeItem_OlderWins(local_items, item) ==
    LET existing_idx == Position(local_items, item.id)
    IN  IF existing_idx # 0
        THEN IF Ts(item) < Ts(local_items[existing_idx])
             THEN [local_items EXCEPT ![existing_idx] = item]
             ELSE local_items
        ELSE Append(local_items, item)

\* the loop body with >= for >: the incoming item wins a tie
MergeItem_IncomingWinsTie(local_items, item) ==
    LET existing_idx == Position(local_items, item.id)
    IN  IF existing_idx # 0
        THEN IF Ts(item) >= Ts(local_items[existing_idx])
             THEN [local_items EXCEPT ![existing_idx] = item]
             ELSE local_items
        ELSE Append(local_items, item)

\* the loop body inserting a new item at the front, as add_item_for_user does
MergeItem_PushFront(local_items, item) ==
    LET existing_idx == Position(local_items, item.id)
    IN  IF existing_idx # 0
        THEN IF Ts(item) > Ts(local_items[existing_idx])
             THEN [local_items EXCEPT ![existing_idx] = item]
             ELSE local_items
        ELSE <<item>> \o local_items

\* the loop body updating by remove and insert at the front
MergeItem_MoveToFront(local_items, item) ==
    LET existing_idx == Position(local_items, item.id)
    IN  IF existing_idx # 0
        THEN IF Ts(item) > Ts(local_items[existing_idx])
             THEN <<item>> \o SubSeq(local_items, 1, existing_idx - 1)
                     \o SubSeq(local_items, existing_idx + 1, Len(local_items))
             ELSE local_items
        ELSE Append(local_items, item)

\* the loop body without the else branch: an unknown id is not pushed
MergeItem_UpdateOnly(local_items, item) ==
    LET existing_idx == Position(local_items, item.id)
    IN  IF existing_idx # 0 /\ Ts(item) > Ts(local_items[existing_idx])
        THEN [local_items EXCEPT ![existing_idx] = item]
        ELSE local_items

\* the body of the loop over incoming_items
MergeItem(local_items, item) ==
    LET existing_idx == Position(local_items, item.id)
    IN  IF existing_idx # 0
        THEN IF Ts(item) > Ts(local_items[existing_idx])
             THEN [local_items EXCEPT ![existing_idx] = item]
             ELSE local_items
        ELSE Append(local_items, item)

RECURSIVE MergeItems(_, _)
MergeItems(local_items, incoming_items) ==
    IF incoming_items = <<>> THEN local_items
    ELSE MergeItems(MergeItem(local_items, Head(incoming_items)), Tail(incoming_items))

\* the users loop body replacing the record of a known username
MergeUser_Overwrite(users, user) ==
    IF \E k \in 1..Len(users) : users[k].username = user.username
    THEN [k \in 1..Len(users) |-> IF users[k].username = user.username THEN user ELSE users[k]]
    ELSE Append(users, user)

\* the users loop body without the test: every incoming record is pushed
MergeUser_AlwaysPush(users, user) == Append(users, user)

\* the body of the loop over incoming.users
MergeUser(users, user) ==
    IF \E k \in 1..Len(users) : users[k].username = user.username
    THEN users
    ELSE Append(users, user)

RECURSIVE MergeUsers(_, _)
MergeUsers(users, incoming_users) ==
    IF incoming_users = <<>> THEN users
    ELSE MergeUsers(MergeUser(users, Head(incoming_users)), Tail(incoming_users))

\* data.items_by_user.entry(username).or_default()
EntryOrDefault(map, username) == IF username \in DOMAIN map THEN map[username] ELSE <<>>

\* Database::merge_full_data, the in-memory part
merge_full_data(data, incoming) ==
    [items |-> data.items,
     users |-> MergeUsers(data.users, incoming.users),
     items_by_user |->
        [u \in DOMAIN data.items_by_user \cup DOMAIN incoming.items_by_user |->
            IF u \in DOMAIN incoming.items_by_user
            THEN MergeItems(EntryOrDefault(data.items_by_user, u), incoming.items_by_user[u])
            ELSE data.items_by_user[u]]]

\* get_full_data answering with the legacy items field only
get_full_data_ItemsOnly(data) == [items |-> data.items, users |-> <<>>, items_by_user |-> <<>>]

\* Database::get_full_data
get_full_data(data) == data

\* list.retain(|i| i.id != id)
RECURSIVE RetainOthers(_, _)
RetainOthers(list, id) ==
    IF list = <<>> THEN <<>>
    ELSE IF Head(list).id # id THEN <<Head(list)>> \o RetainOthers(Tail(list), id)
         ELSE RetainOthers(Tail(list), id)

WithList(data, username, list) ==
    [data EXCEPT !.items_by_user =
        [u \in DOMAIN data.items_by_user \cup {username} |->
            IF u = username THEN list ELSE data.items_by_user[u]]]

\* add_item_for_user keeping a stored item that is not older, as the merge does
add_item_for_user_KeepNewer(data, username, item) ==
    LET list == EntryOrDefault(data.items_by_user, username)
        idx  == Position(list, item.id)
    IN  IF idx # 0 /\ Ts(item) <= Ts(list[idx])
        THEN WithList(data, username, list)
        ELSE WithList(data, username, <<item>> \o RetainOthers(list, item.id))

\* Database::add_item_for_user, the in-memory part
add_item_for_user(data, username, item) ==
    WithList(data, username,
             <<item>> \o RetainOthers(EntryOrDefault(data.items_by_user, username), item.id))

\* Database::remove_item_for_user, the in-memory part
remove_item_for_user(data, username, id) ==
    IF username \in DOMAIN data.items_by_user
    THEN WithList(data, username, RetainOthers(data.items_by_user[username], id))
    ELSE data

\* the loop of import_for_user: existing_ids is taken once, before the loop
RECURSIVE ImportItems(_, _, _)
ImportItems(list, existing_ids, items) ==
    IF items = <<>> THEN list
    ELSE ImportItems(IF Head(items).id \notin existing_ids THEN Append(list, Head(items)) ELSE list,
                     existing_ids, Tail(items))

\* Database::import_for_user, the in-memory part
import_for_user(data, username, items) ==
    LET list == EntryOrDefault(data.items_by_user, username)
        existing_ids == {list[k].id : k \in 1..Len(list)}
    IN  WithList(data, username, ImportItems(list, existing_ids, items))

\* list.drain(..).map(|item| (item.id.clone(), item)).collect::<HashMap>():
\* of the items of one id the map keeps the last
IdMap(list) ==
    [i \in {list[k].id : k \in 1..Len(list)} |->
        list[CHOOSE k \in 1..Len(list) :
                /\ list[k].id = i
                /\ \A j \in (k + 1)..Len(list) : list[j].id # i]]

\* the ids of new_order_ids that id_map.remove finds, in order
RECURSIVE Named(_, _)
Named(keys, new_order_ids) ==
    IF new_order_ids = <<>> THEN <<>>
    ELSE IF Head(new_order_ids) \in keys
         THEN <<Head(new_order_ids)>> \o Named(keys \ {Head(new_order_ids)}, Tail(new_order_ids))
         ELSE Named(keys, Tail(new_order_ids))

\* the orders in which `for (_, item) in id_map` may visit the keys left
Orders(keys) == {s \in [1..Cardinality(keys) -> keys] : {s[k] : k \in 1..Len(s)} = keys}

\* reorder_items_for_user without the loop over what id_map still holds
reorder_items_for_user_DropRest(data, username, new_order_ids) ==
    IF username \in DOMAIN data.items_by_user
    THEN LET id_map == IdMap(data.items_by_user[username])
             named  == Named(DOMAIN id_map, new_order_ids)
         IN  {WithList(data, username, [k \in 1..Len(named) |-> id_map[named[k]]])}
    ELSE {data}

\* Database::reorder_items_for_user, the in-memory part: the lists it may leave
reorder_items_for_user(data, username, new_order_ids) ==
    IF username \in DOMAIN data.items_by_user
    THEN LET id_map == IdMap(data.items_by_user[username])
             named  == Named(DOMAIN id_map, new_order_ids)
             rest   == DOMAIN id_map \ {named[k] : k \in 1..Len(named)}
         IN  {WithList(data, username, [k \in 1..Len(named \o r) |-> id_map[(named \o r)[k]]]) :
                r \in Orders(rest)}
    ELSE {data}

\* Database::find_user(..).is_some(), and the test of add_user
UserExists(data, username) == \E k \in 1..Len(data.users) : data.users[k].username = username

\* Database::add_user, the in-memory part
add_user(data, user) ==
    IF UserExists(data, user.username) THEN data
    ELSE [data EXCEPT !.users = Append(data.users, user)]

----------------------------------------------------------------------------
(* The store and the sync handlers in front of it *)

\* no call to look back at, and no GET answered
NoCall     == [op |-> "none", pre |-> DefaultCollectionData, arg |-> <<>>, ok |-> TRUE]
NoResponse == <<>>

\* Database::new where no collection.json exists yet
InitStore == /\ cache = DefaultCollectionData
             /\ last = NoCall
             /\ response = NoResponse

NoEvent  == [kind |-> "none"]
NoAnswer == <<>>

\* SyncService::new
InitSync == /\ peers = <<>>
            /\ listener = "none"
            /\ clock = 0
            /\ lastEvent = NoEvent
            /\ prePeers = <<>>
            /\ known = NoAnswer

\* a start_server call that has not been made
NoStart == [pc |-> "idle", sawRunning |-> FALSE, attempts |-> <<>>, bindFailed |-> FALSE,
            setRunning |-> FALSE, served |-> 0]

\* SyncService::new: running is false, nothing announced, spawned or bound
InitServer == /\ running = FALSE
              /\ srv = [c \in StartCalls |-> NoStart]
              /\ announcements = 0
              /\ spawned = 0
              /\ socket = 0
              /\ starts = 0

\* collection.json: absent, written whole, or left cut short by a failed write
NoFile        == [state |-> "absent", data |-> DefaultCollectionData]
Written(data) == [state |-> "written", data |-> data]
Partial       == [state |-> "partial", data |-> DefaultCollectionData]

\* a thread that is not in a call
IdleThread == [pc |-> "idle", op |-> "none", arg |-> <<>>, seen |-> DefaultCollectionData,
               post |-> DefaultCollectionData, ret |-> "none", writes |-> 0, wrote |-> <<>>,
               reply |-> "none"]

\* Database::new where no collection.json exists yet: the mutex is free
InitConc == /\ disk = NoFile
            /\ lock = 0
            /\ thr = [t \in Threads |-> IdleThread]
            /\ base = DefaultCollectionData
            /\ writesFailed = FALSE

\* nobody holds the registry's lock
InitLocks == regHeld = {}

\* start_discovery has not been called a second time
InitListeners == second = "none"

\* two nodes before their first use
InitReplicas == /\ rep = [r \in Replicas |-> DefaultCollectionData]
                /\ merged = {}
                /\ removed = [r \in Replicas |-> {}]

\* no web_search call to look back at
NoSearch == [path |-> "none", key |-> 0]

\* main.rs setup: search_cache: RwLock::new(HashMap::new())
InitSearch == /\ search_cache = <<>>
              /\ now_ms = 0
              /\ searched = NoSearch

Init == /\ InitStore /\ InitSync /\ InitServer /\ InitConc
        /\ InitLocks /\ InitListeners /\ InitReplicas /\ InitSearch

\* a store operation: the cache changes under the lock, then save() writes the
\* file; ok is the outcome of the write
StoreCall(op, arg, after, ok) ==
    /\ Size(after) <= MaxStore
    /\ cache' = after
    /\ last' = [op |-> op, pre |-> cache, arg |-> arg, ok |-> ok]
    /\ response' = NoResponse
    /\ UNCHANGED syncVars
    /\ UNCHANGED <<serverVars, concVars, restVars>>

\* main.rs save_item
save_item(username, item, ok) ==
    StoreCall("add_item_for_user", [username |-> username, item |-> item],
              add_item_for_user(cache, username, item), ok)

\* main.rs remove_item
remove_item(username, id, ok) ==
    StoreCall("remove_item_for_user", [username |-> username, id |-> id],
              remove_item_for_user(cache, username, id), ok)

\* main.rs import_collection
import_collection(username, items, ok) ==
    StoreCall("import_for_user", [username |-> username, items |-> items],
              import_for_user(cache, username, items), ok)

\* Database::reorder_items_for_user
reorder_items(username, new_order_ids, ok) ==
    \E after \in reorder_items_for_user(cache, username, new_order_ids) :
        StoreCall("reorder_items_for_user", [username |-> username, new_order_ids |-> new_order_ids],
                  after, ok)

\* main.rs register_user, from db.add_user on: Err("User already exists")
\* returns before save()
register_user(user, ok) ==
    /\ UserExists(cache, user.username) => ~ok
    /\ StoreCall("add_user", [user |-> user], add_user(cache, user), ok)

\* sync.rs receive_data: merge_full_data(payload).unwrap(), then {"ok": true}.
\* ok is the outcome of save(): when the write fails the handler panics.
receive_data(payload, ok) ==
    StoreCall("merge_full_data", payload, merge_full_data(cache, payload), ok)

\* get_data taking the collection out of the store (std::mem::take)
get_data_Taking ==
    /\ response' = <<get_full_data(cache)>>
    /\ cache' = DefaultCollectionData
    /\ UNCHANGED last
    /\ UNCHANGED syncVars
    /\ UNCHANGED <<serverVars, concVars, restVars>>

\* sync.rs get_data: get_full_data().unwrap_or_default()
get_data ==
    /\ response' = <<get_full_data(cache)>>
    /\ UNCHANGED <<cache, last>>
    /\ UNCHANGED syncVars
    /\ UNCHANGED <<serverVars, concVars, restVars>>

\* the caller takes the result of the call: the history of the call ends
Return ==
    /\ last # NoCall
    /\ last' = NoCall
    /\ response' = NoResponse
    /\ UNCHANGED cache
    /\ UNCHANGED syncVars
    /\ UNCHANGED <<serverVars, concVars, restVars>>

\* a store operation is called when the previous one has returned
Idle == last = NoCall

PostSyncData     == Idle /\ \E payload \in Payloads, ok \in BOOLEAN : receive_data(payload, ok)
GetSyncData      == get_data
SaveItem         == Idle /\ \E username \in Usernames, item \in MediaItem, ok \in BOOLEAN :
                               save_item(username, item, ok)
RemoveItem       == Idle /\ \E username \in Usernames, id \in Ids, ok \in BOOLEAN :
                               remove_item(username, id, ok)
ImportCollection == Idle /\ \E username \in Usernames, items \in SeqsUpTo(MediaItem, MaxIncomingItems),
                               ok \in BOOLEAN : import_collection(username, items, ok)
ReorderItems     == Idle /\ \E username \in Usernames, new_order_ids \in SeqsUpTo(Ids, MaxIncomingItems),
                               ok \in BOOLEAN : reorder_items(username, new_order_ids, ok)
RegisterUser     == Idle /\ \E user \in UserRecord, ok \in BOOLEAN : register_user(user, ok)

Next ==
    \/ PostSyncData
    \/ GetSyncData
    \/ SaveItem
    \/ RemoveItem
    \/ ImportCollection
    \/ ReorderItems
    \/ RegisterUser
    \/ Return

Spec == Init /\ [][Next]_vars

----------------------------------------------------------------------------
(* sync.rs: the peer registry and the discovery listener *)

\* instance names under the browsed service type, as get_fullname gives them
FullNames == {"MediaTracker_h1._mediatracker._tcp.local.",
              "MediaTracker_h2._mediatracker._tcp.local."}
\* host names, as get_hostname gives them
Hostnames == {"h1.local.", "h2.local."}
\* addresses, as ip.to_string() gives them
Ips       == {"192.168.1.5", "192.168.1.6"}
Ports     == {14567, 8080}

\* the events receiver.recv() delivers: ServiceResolved(info),
\* ServiceRemoved(type, fullname), and the events the listener ignores
ServiceEvents ==
         [kind : {"resolved"}, fullname : FullNames, hostname : Hostnames,
          addresses : SUBSET Ips, port : Ports]
    \cup [kind : {"removed"}, fullname : FullNames]
    \cup [kind : {"other"}]

\* HashMap::insert
Insert(map, key, value) == [k \in DOMAIN map \cup {key} |-> IF k = key THEN value ELSE map[k]]
\* HashMap::remove
Remove(map, key) == [k \in DOMAIN map \ {key} |-> map[k]]

\* info.get_addresses().iter().next().map(|ip| ip.to_string()).unwrap_or_default():
\* the addresses are a set, any of them may come first
FirstAddress(addresses) == IF addresses = {} THEN {""} ELSE addresses

\* the ServiceResolved arm also dropping the peers not seen since `now`
OnResolved_DropStale(registry, info, ip, now) ==
    LET fresh == [k \in {n \in DOMAIN registry : registry[n].last_seen >= now} |-> registry[k]]
    IN  IF ip # ""
        THEN Insert(fresh, info.fullname,
                    [name |-> info.hostname, ip |-> ip, port |-> info.port, last_seen |-> now])
        ELSE fresh

\* the ServiceResolved arm, ip being the address taken
OnResolved(registry, info, ip, now) ==
    IF ip # ""
    THEN Insert(registry, info.fullname,
                [name |-> info.hostname, ip |-> ip, port |-> info.port, last_seen |-> now])
    ELSE registry

\* the ServiceRemoved arm dropping the peers whose name is the event's name
OnRemoved_ByPeerName(registry, fullname) ==
    [k \in {n \in DOMAIN registry : registry[n].name # fullname} |-> registry[k]]

\* the ServiceRemoved arm
OnRemoved(registry, fullname) == Remove(registry, fullname)

\* SyncService::start_discovery: the thread is spawned and browses
start_discovery ==
    /\ listener = "none"
    /\ listener' = "running"
    /\ UNCHANGED <<peers, clock, lastEvent, prePeers, known>>
    /\ UNCHANGED storeVars
    /\ UNCHANGED <<serverVars, concVars, restVars>>

\* one turn of the loop `while let Ok(event) = receiver.recv()`
HandleEvent(event) ==
    /\ listener = "running"
    /\ \/ /\ event.kind = "resolved"
          /\ \E ip \in FirstAddress(event.addresses) :
                peers' = OnResolved(peers, event, ip, clock)
       \/ /\ event.kind = "removed"
          /\ peers' = OnRemoved(peers, event.fullname)
       \/ /\ event.kind = "other"
          /\ peers' = peers
    /\ lastEvent' = event
    /\ prePeers' = peers
    /\ known' = NoAnswer
    /\ UNCHANGED <<listener, clock>>
    /\ UNCHANGED storeVars
    /\ UNCHANGED <<serverVars, concVars, restVars>>

\* receiver.recv() returns Err: the loop, and the thread, end
RecvError ==
    /\ listener = "running"
    /\ listener' = "dead"
    /\ UNCHANGED <<peers, clock, lastEvent, prePeers, known>>
    /\ UNCHANGED storeVars
    /\ UNCHANGED <<serverVars, concVars, restVars>>

\* the orders in which guard.values() may visit the registry
Snapshots(registry) ==
    {[k \in 1..Len(o) |-> registry[o[k]]] : o \in Orders(DOMAIN registry)}

\* SyncService::get_known_peers
get_known_peers ==
    /\ \E v \in Snapshots(peers) : known' = <<v>>
    /\ UNCHANGED <<peers, listener, clock, lastEvent, prePeers>>
    /\ UNCHANGED storeVars
    /\ UNCHANGED <<serverVars, concVars, restVars>>

\* time passes
Tick ==
    /\ clock < MaxClock
    /\ clock' = clock + 1
    /\ UNCHANGED <<peers, listener, lastEvent, prePeers, known>>
    /\ UNCHANGED storeVars
    /\ UNCHANGED <<serverVars, concVars, restVars>>

Discover == \E event \in ServiceEvents : HandleEvent(event)

NextSync ==
    \/ start_discovery
    \/ Discover
    \/ RecvError
    \/ get_known_peers
    \/ Tick

SpecSync == Init /\ [][NextSync]_vars

----------------------------------------------------------------------------
(* sync.rs: the discovery threads of one SyncService.  start_discovery has
   no guard of its own: every pass of start_server through line 87 spawns a
   thread with its own receiver and the shared registry. *)

\* start_discovery called by a later pass of start_server
start_discovery_again ==
    /\ listener # "none"
    /\ second = "none"
    /\ second' = "running"
    /\ UNCHANGED <<rep, merged, removed, regHeld, search_cache, now_ms, searched>>
    /\ UNCHANGED <<syncVars, storeVars, serverVars, concVars>>

\* one turn of the second thread's loop
HandleEventSecond(event) ==
    /\ second = "running"
    /\ \/ /\ event.kind = "resolved"
          /\ \E ip \in FirstAddress(event.addresses) :
                peers' = OnResolved(peers, event, ip, clock)
       \/ /\ event.kind = "removed"
          /\ peers' = OnRemoved(peers, event.fullname)
       \/ /\ event.kind = "other"
          /\ peers' = peers
    /\ lastEvent' = event
    /\ prePeers' = peers
    /\ known' = NoAnswer
    /\ UNCHANGED <<listener, clock>>
    /\ UNCHANGED storeVars
    /\ UNCHANGED <<serverVars, concVars, restVars>>

\* the second thread's receiver.recv() returns Err
RecvErrorSecond ==
    /\ second = "running"
    /\ second' = "dead"
    /\ UNCHANGED <<rep, merged, removed, regHeld, search_cache, now_ms, searched>>
    /\ UNCHANGED <<syncVars, storeVars, serverVars, concVars>>

DiscoverSecond == \E event \in ServiceEvents : HandleEventSecond(event)

NextListeners ==
    \/ start_discovery
    \/ Discover
    \/ RecvError
    \/ start_discovery_again
    \/ DiscoverSecond
    \/ RecvErrorSecond
    \/ get_known_peers
    \/ Tick

SpecListeners == Init /\ [][NextListeners]_vars

----------------------------------------------------------------------------
(* sync.rs: start_server *)

\* SyncService.port
Port == 14567

\* the other variables of the model, which start_server leaves alone
NotServer == <<cache, last, response, peers, listener, clock, lastEvent, prePeers, known,
               disk, lock, thr, base, writesFailed, restVars>>

\* start_server(db) is called: the future exists, nothing of it has run
StartCall(c) ==
    /\ srv[c].pc \in {"idle", "returned"}
    /\ starts < MaxStarts
    /\ srv' = [srv EXCEPT ![c] = [NoStart EXCEPT !.pc = "entered"]]
    /\ starts' = starts + 1
    /\ UNCHANGED <<running, announcements, spawned, socket>>
    /\ UNCHANGED NotServer

\* the guard without the flag: every call goes on
AlreadyRunning_Never == FALSE

\* self.running.load(Ordering::SeqCst)
AlreadyRunning == running

\* the guard at the head of start_server: return when the flag is set
CheckRunning(c) ==
    /\ srv[c].pc = "entered"
    /\ IF AlreadyRunning
       THEN srv' = [srv EXCEPT ![c].pc = "returned", ![c].sawRunning = TRUE]
       ELSE srv' = [srv EXCEPT ![c].pc = "register"]
    /\ UNCHANGED <<running, announcements, spawned, socket, starts>>
    /\ UNCHANGED NotServer

\* self.mdns.register(service_info): an Err is printed and the call goes on
Register(c, ok) ==
    /\ srv[c].pc = "register"
    /\ announcements' = IF ok THEN announcements + 1 ELSE announcements
    /\ srv' = [srv EXCEPT ![c].pc = "discover"]
    /\ UNCHANGED <<running, spawned, socket, starts>>
    /\ UNCHANGED NotServer

\* self.start_discovery(): a listener thread is spawned
SpawnDiscovery(c) ==
    /\ srv[c].pc = "discover"
    /\ spawned' = spawned + 1
    /\ srv' = [srv EXCEPT ![c].pc = "bind"]
    /\ UNCHANGED <<running, announcements, socket, starts>>
    /\ UNCHANGED NotServer

\* the Err arm of the bind trying again
AfterBindError_Retry(call) ==
    [call EXCEPT !.pc = "bind", !.bindFailed = TRUE, !.attempts = Append(call.attempts, Port)]

\* the Err arm of the bind: the error is printed and start_server returns
AfterBindError(call) ==
    [call EXCEPT !.pc = "returned", !.bindFailed = TRUE, !.attempts = Append(call.attempts, Port)]

\* the Ok arm of the bind: the flag is set and axum::serve runs
AfterBindOk(call) ==
    [call EXCEPT !.pc = "serving", !.setRunning = TRUE, !.attempts = Append(call.attempts, Port)]

\* tokio::net::TcpListener::bind(addr).await: it fails when the port is held,
\* by a listener of this service or by another process
Bind(c, ok) ==
    /\ srv[c].pc = "bind"
    /\ ok => socket = 0
    /\ IF ok
       THEN /\ running' = TRUE
            /\ socket' = c
            /\ srv' = [srv EXCEPT ![c] = AfterBindOk(srv[c])]
       ELSE /\ srv' = [srv EXCEPT ![c] = AfterBindError(srv[c])]
            /\ UNCHANGED <<running, socket>>
    /\ UNCHANGED <<announcements, spawned, starts>>
    /\ UNCHANGED NotServer

\* axum::serve(listener, app) serves a request
Serve(c) ==
    /\ srv[c].pc = "serving"
    /\ srv[c].served < MaxServed
    /\ srv' = [srv EXCEPT ![c].served = srv[c].served + 1]
    /\ UNCHANGED <<running, announcements, spawned, socket, starts>>
    /\ UNCHANGED NotServer

\* axum::serve returns: the flag is cleared, the listener is dropped
ServeEnds(c) ==
    /\ srv[c].pc = "serving"
    /\ running' = FALSE
    /\ socket' = 0
    /\ srv' = [srv EXCEPT ![c].pc = "returned"]
    /\ UNCHANGED <<announcements, spawned, starts>>
    /\ UNCHANGED NotServer

StartServer    == \E c \in StartCalls : StartCall(c)
LoadRunning    == \E c \in StartCalls : CheckRunning(c)
RegisterMdns   == \E c \in StartCalls, ok \in BOOLEAN : Register(c, ok)
StartDiscovery == \E c \in StartCalls : SpawnDiscovery(c)
BindPort       == \E c \in StartCalls, ok \in BOOLEAN : Bind(c, ok)
ServeRequest   == \E c \in StartCalls : Serve(c)
ServerStops    == \E c \in StartCalls : ServeEnds(c)

NextServer ==
    \/ StartServer
    \/ LoadRunning
    \/ RegisterMdns
    \/ StartDiscovery
    \/ BindPort
    \/ ServeRequest
    \/ ServerStops

SpecServer == Init /\ [][NextServer]_vars

----------------------------------------------------------------------------
(* database.rs under concurrent callers: the mutex and the file *)

\* the items and user records the concurrent callers pass
ConcItems == {[id |-> "1", title |-> "a", last_edited_at |-> None],
              [id |-> "1", title |-> "c", last_edited_at |-> Some(1)],
              [id |-> "2", title |-> "a", last_edited_at |-> None]}
ConcUsers == {r \in UserRecord : r.username = "alice"}

\* the bodies POSTed: one item of alice, or one user record
ConcPayloads ==
         {[items |-> <<>>, users |-> <<>>, items_by_user |-> [u \in {"alice"} |-> <<i>>]] : i \in ConcItems}
    \cup {[items |-> <<>>, users |-> <<r>>, items_by_user |-> <<>>] : r \in ConcUsers}

\* the calls a thread may make: POST /sync/data and the five store
\* operations behind the commands
ConcCalls ==
         [op : {"receive_data"}, arg : ConcPayloads]
    \cup [op : {"add_item_for_user"}, arg : [username : {"alice"}, item : ConcItems]]
    \cup [op : {"remove_item_for_user"}, arg : [username : {"alice"}, id : Ids]]
    \cup [op : {"import_for_user"}, arg : [username : {"alice"}, items : [1..1 -> ConcItems]]]
    \cup [op : {"reorder_items_for_user"},
          arg : [username : {"alice"}, new_order_ids : {<<"2">>, <<"2", "1">>}]]
    \cup [op : {"add_user"}, arg : [user : ConcUsers]]

\* the most a call adds to the store
Grow(op) == IF op \in {"remove_item_for_user", "reorder_items_for_user"} THEN 0 ELSE 1

\* what the calls that have not changed the cache yet may still add
Pending == Cardinality({t \in Threads : thr[t].pc \in {"lock", "mutate"}})

\* the other variables of the model, which the store leaves alone
NotConc == <<last, response, peers, listener, clock, lastEvent, prePeers, known,
             running, srv, announcements, spawned, socket, starts, second, rep, merged, removed,
             search_cache, now_ms, searched>>

\* a thread calls the store; base remembers the cache the first call met
Call(t, call) ==
    /\ thr[t].pc = "idle"
    /\ Size(cache) + Pending + Grow(call.op) <= MaxStore
    /\ thr' = [thr EXCEPT ![t] = [IdleThread EXCEPT !.pc = "lock", !.op = call.op, !.arg = call.arg]]
    /\ UNCHANGED <<cache, disk, lock, base, writesFailed, regHeld>>
    /\ UNCHANGED NotConc

\* a mutex that excludes nobody
MutexFree_Always == TRUE

\* Mutex::lock returns when no other thread holds the mutex
MutexFree == lock = 0

\* self.cache.lock() at the head of an operation: the guard gives the data
LockCache(t) ==
    /\ thr[t].pc = "lock"
    /\ MutexFree
    /\ lock' = t
    /\ thr' = [thr EXCEPT ![t].pc = "mutate", ![t].seen = cache]
    /\ UNCHANGED <<cache, disk, base, writesFailed, regHeld>>
    /\ UNCHANGED NotConc

\* the caches the in-memory part of an operation may leave
After(op, arg, data) ==
    CASE op = "receive_data"           -> {merge_full_data(data, arg)}
      [] op = "add_item_for_user"      -> {add_item_for_user(data, arg.username, arg.item)}
      [] op = "remove_item_for_user"   -> {remove_item_for_user(data, arg.username, arg.id)}
      [] op = "import_for_user"        -> {import_for_user(data, arg.username, arg.items)}
      [] op = "reorder_items_for_user" -> reorder_items_for_user(data, arg.username, arg.new_order_ids)
      [] op = "add_user"               -> {add_user(data, arg.user)}

\* receive_data ignoring the result of the merge
Unwrap_IgnoreErr(ret) == "ok_true"

\* receive_data: merge_full_data(payload).unwrap(), then Json({"ok": true});
\* unwrap on an Err panics and the request gets no answer
Unwrap(ret) == IF ret = "Ok" THEN "ok_true" ELSE "panic"

\* what the caller gets: the handler's answer, or the Result of the operation
Reply(op, ret) == IF op = "receive_data" THEN Unwrap(ret) ELSE ret

\* the body of an operation without drop(data): the guard lives on into save()
Mutate_KeepGuard(t) ==
    /\ thr[t].pc = "mutate"
    /\ lock' = t
    /\ IF thr[t].op = "add_user" /\ UserExists(thr[t].seen, thr[t].arg.user.username)
       THEN /\ thr' = [thr EXCEPT ![t].pc = "done", ![t].ret = "Err",
                                  ![t].reply = Reply(thr[t].op, "Err"),
                                  ![t].seen = DefaultCollectionData]
            /\ UNCHANGED cache
       ELSE \E after \in After(thr[t].op, thr[t].arg, thr[t].seen) :
               /\ cache' = after
               /\ thr' = [thr EXCEPT ![t].pc = "save", ![t].post = after,
                                     ![t].seen = DefaultCollectionData]
    /\ UNCHANGED <<disk, base, writesFailed, regHeld>>
    /\ UNCHANGED NotConc

\* the body of an operation under the lock, up to drop(data); add_user
\* returns Err("User already exists") from inside it
Mutate(t) ==
    /\ thr[t].pc = "mutate"
    /\ lock' = 0
    /\ IF thr[t].op = "add_user" /\ UserExists(thr[t].seen, thr[t].arg.user.username)
       THEN /\ thr' = [thr EXCEPT ![t].pc = "done", ![t].ret = "Err",
                                  ![t].reply = Reply(thr[t].op, "Err"),
                                  ![t].seen = DefaultCollectionData]
            /\ UNCHANGED cache
       ELSE \E after \in After(thr[t].op, thr[t].arg, thr[t].seen) :
               /\ cache' = after
               /\ thr' = [thr EXCEPT ![t].pc = "save", ![t].post = after,
                                     ![t].seen = DefaultCollectionData]
    /\ UNCHANGED <<disk, base, writesFailed, regHeld>>
    /\ UNCHANGED NotConc

\* self.cache.lock() at the head of save()
SaveLock(t) ==
    /\ thr[t].pc = "save"
    /\ MutexFree
    /\ lock' = t
    /\ thr' = [thr EXCEPT ![t].pc = "write"]
    /\ UNCHANGED <<cache, disk, base, writesFailed, regHeld>>
    /\ UNCHANGED NotConc

\* what a failed fs::write may leave: the file as it was, or cut short
AfterFailedWrite(file) == {file, Partial}

\* save() writing what the operation left when it dropped the lock
Serialized_OwnResult(t) == thr[t].post

\* serde_json::to_string_pretty(&*data): the cache as save() finds it under
\* its own lock
Serialized(t) == cache

\* save() answering Ok whatever fs::write returned
SaveResult_AlwaysOk(ok) == "Ok"

\* save(): fs::write(..).map_err(..)?, then Ok(())
SaveResult(ok) == IF ok THEN "Ok" ELSE "Err"

\* save(): fs::write under the lock, and the return of the operation
Write(t, ok) ==
    /\ thr[t].pc = "write"
    /\ IF ok THEN disk' = Written(Serialized(t))
             ELSE disk' \in AfterFailedWrite(disk)
    /\ lock' = 0
    /\ writesFailed' = (writesFailed \/ ~ok)
    /\ LET ret == SaveResult(ok)
       IN  thr' = [thr EXCEPT ![t].pc = "done", ![t].ret = ret,
                              ![t].writes = thr[t].writes + 1,
                              ![t].wrote = IF ok THEN <<Serialized(t)>> ELSE <<>>,
                              ![t].reply = Reply(thr[t].op, ret)]
    /\ UNCHANGED <<cache, base, regHeld>>
    /\ UNCHANGED NotConc

\* the callers have their answers; the next calls start from this cache
Settle ==
    /\ \A t \in Threads : thr[t].pc \in {"idle", "done"}
    /\ \E t \in Threads : thr[t].pc = "done"
    /\ thr' = [t \in Threads |-> IdleThread]
    /\ base' = cache
    /\ UNCHANGED <<cache, disk, lock, writesFailed, regHeld>>
    /\ UNCHANGED NotConc

CallStore   == \E t \in Threads, call \in ConcCalls : Call(t, call)
TakeLock    == \E t \in Threads : LockCache(t)
ChangeCache == \E t \in Threads : Mutate(t)
TakeLockToSave == \E t \in Threads : SaveLock(t)
WriteFile   == \E t \in Threads, ok \in BOOLEAN : Write(t, ok)

NextConc ==
    \/ CallStore
    \/ TakeLock
    \/ ChangeCache
    \/ TakeLockToSave
    \/ WriteFile
    \/ Settle

SpecConc == Init /\ [][NextConc]_vars

----------------------------------------------------------------------------
(* Two nodes: each its own Database, edited locally and then exchanging
   their full data over GET /sync/data and POST /sync/data *)

\* the items the users of the two nodes save, remove and import
ReplicaItems == ConcItems \cup {[id |-> "1", title |-> "b", last_edited_at |-> None]}

Other(r) == CHOOSE o \in Replicas : o # r

\* the ids of a user's list
IdsOf(data, u) ==
    LET list == EntryOrDefault(data.items_by_user, u)
    IN  {list[k].id : k \in 1..Len(list)}

\* a local edit goes through while no exchange is under way
Edit(r, after) ==
    /\ merged = {}
    /\ Size(after) <= MaxReplica \/ Size(after) <= Size(rep[r])
    /\ rep' = [rep EXCEPT ![r] = after]

\* add_item_for_user on node r
EditAdd(r, u, item) ==
    /\ Edit(r, add_item_for_user(rep[r], u, item))
    /\ removed' = [removed EXCEPT ![r] = @ \ {<<u, item.id>>}]
    /\ UNCHANGED <<merged, regHeld, second, search_cache, now_ms, searched>>
    /\ UNCHANGED <<storeVars, syncVars, serverVars, concVars>>

\* remove_item_for_user on node r
EditRemove(r, u, id) ==
    /\ Edit(r, remove_item_for_user(rep[r], u, id))
    /\ removed' = [removed EXCEPT ![r] = IF id \in IdsOf(rep[r], u) THEN {<<u, id>>} ELSE @]
    /\ UNCHANGED <<merged, regHeld, second, search_cache, now_ms, searched>>
    /\ UNCHANGED <<storeVars, syncVars, serverVars, concVars>>

\* import_for_user on node r
EditImport(r, u, items) ==
    /\ Edit(r, import_for_user(rep[r], u, items))
    /\ removed' = [removed EXCEPT ![r] = {p \in @ : p[1] # u \/ p[2] \notin IdsOf(rep'[r], u)}]
    /\ UNCHANGED <<merged, regHeld, second, search_cache, now_ms, searched>>
    /\ UNCHANGED <<storeVars, syncVars, serverVars, concVars>>

\* the full data of node from, read with get_data, is POSTed to node to,
\* whose receive_data merges it
Push(from, to) ==
    /\ from # to
    /\ to \notin merged
    /\ rep' = [rep EXCEPT ![to] = merge_full_data(rep[to], get_full_data(rep[from]))]
    /\ merged' = merged \cup {to}
    /\ UNCHANGED <<removed, regHeld, second, search_cache, now_ms, searched>>
    /\ UNCHANGED <<storeVars, syncVars, serverVars, concVars>>

\* the exchange is over in both directions and the users edit again
EditAgain ==
    /\ merged = Replicas
    /\ \A r \in Replicas : Size(rep[r]) <= MaxReplica
    /\ merged' = {}
    /\ removed' = [r \in Replicas |-> {}]
    /\ UNCHANGED <<rep, regHeld, second, search_cache, now_ms, searched>>
    /\ UNCHANGED <<storeVars, syncVars, serverVars, concVars>>

SaveLocally   == \E r \in Replicas, u \in Usernames, item \in ReplicaItems : EditAdd(r, u, item)
RemoveLocally == \E r \in Replicas, u \in Usernames, id \in Ids : EditRemove(r, u, id)
ImportLocally == \E r \in Replicas, u \in Usernames, items \in SeqsUpTo(ReplicaItems, MaxIncomingItems) :
                    EditImport(r, u, items)
Exchange      == \E from, to \in Replicas : Push(from, to)

NextReplicas ==
    \/ SaveLocally
    \/ RemoveLocally
    \/ ImportLocally
    \/ Exchange
    \/ EditAgain

SpecReplicas == Init /\ [][NextReplicas]_vars

----------------------------------------------------------------------------
(* The two locks: Database.cache's Mutex and SyncService.peers' RwLock *)

\* the discovery thread, numbered after the store's callers
ListenerThread == MaxThreads + 1

\* one call of each operation: the locks are taken whatever the arguments
LockCalls ==
    {CHOOSE call \in ConcCalls : call.op = op :
        op \in {"receive_data", "add_item_for_user", "remove_item_for_user", "import_for_user",
                "reorder_items_for_user", "add_user"}}

\* get_known_peers: self.peers.read() returns when no writer holds the lock
GetPeersLock(t) ==
    /\ thr[t].pc = "idle"
    /\ ListenerThread \notin regHeld
    /\ regHeld' = regHeld \cup {t}
    /\ thr' = [thr EXCEPT ![t].pc = "peers"]
    /\ UNCHANGED <<cache, disk, lock, base, writesFailed>>
    /\ UNCHANGED NotConc

\* get_known_peers: the values are cloned and the guard is dropped
GetPeersReturn(t) ==
    /\ thr[t].pc = "peers"
    /\ regHeld' = regHeld \ {t}
    /\ thr' = [thr EXCEPT ![t].pc = "idle"]
    /\ UNCHANGED <<cache, disk, lock, base, writesFailed>>
    /\ UNCHANGED NotConc

\* the listener, in the ServiceResolved or the ServiceRemoved arm:
\* peers.write() returns when nobody holds the lock
ListenerLock ==
    /\ regHeld = {}
    /\ regHeld' = {ListenerThread}
    /\ UNCHANGED <<cache, disk, lock, thr, base, writesFailed>>
    /\ UNCHANGED NotConc

\* the listener has inserted or removed, and the guard is dropped
ListenerUnlock ==
    /\ ListenerThread \in regHeld
    /\ regHeld' = {}
    /\ UNCHANGED <<cache, disk, lock, thr, base, writesFailed>>
    /\ UNCHANGED NotConc

CallOneOfEach  == \E t \in Threads, call \in LockCalls : Call(t, call)
ReadPeers      == \E t \in Threads : GetPeersLock(t)
ReadPeersDone  == \E t \in Threads : GetPeersReturn(t)

NextLocks ==
    \/ CallOneOfEach
    \/ TakeLock
    \/ ChangeCache
    \/ TakeLockToSave
    \/ WriteFile
    \/ Settle
    \/ ReadPeers
    \/ ReadPeersDone
    \/ ListenerLock
    \/ ListenerUnlock

SpecLocks == Init /\ [][NextLocks]_vars

----------------------------------------------------------------------------
(* main.rs: web_search and AppState.search_cache *)

\* the cache keys format!("p={};t={};cx={};u={};q={}", ..) of the searches
\* made, numbered: enough of them to overfill the cache
CacheKeys == 1..(SEARCH_CACHE_MAX_ENTRIES + 2)

\* the serialized results a search may give
SearchPayloads == {"r1", "r2"}

\* u64::saturating_sub
saturating_sub(a, b) == IF a > b THEN a - b ELSE 0

\* SearchCacheEntry { ts_ms, payload }
SearchCacheEntry(ts, payload) == [ts_ms |-> ts, payload |-> payload]

\* guard.insert(cache_key, entry)
CacheInsert(guard, cache_key, entry) ==
    [k \in DOMAIN guard \cup {cache_key} |-> IF k = cache_key THEN entry ELSE guard[k]]

\* guard.retain(|_, v| v.ts_ms >= cutoff)
Retain(guard, cutoff) ==
    [k \in {j \in DOMAIN guard : guard[j].ts_ms >= cutoff} |-> guard[k]]

\* while guard.len() > SEARCH_CACHE_MAX_ENTRIES { remove keys().next() }:
\* the map's iteration order decides which keys go
EvictDownTo(guard, n) ==
    IF Cardinality(DOMAIN guard) <= n THEN {guard}
    ELSE {[k \in D |-> guard[k]] : D \in {E \in SUBSET DOMAIN guard : Cardinality(E) = n}}

\* the store of the provider success arm, under the write lock
StoreWithEviction(guard, cache_key, now, payload) ==
    LET inserted == CacheInsert(guard, cache_key, SearchCacheEntry(now, payload))
    IN  IF Cardinality(DOMAIN inserted) > SEARCH_CACHE_MAX_ENTRIES
        THEN EvictDownTo(Retain(inserted, saturating_sub(now, SEARCH_CACHE_TTL_MS)),
                         SEARCH_CACHE_MAX_ENTRIES)
        ELSE {inserted}

\* the store of the fallback arm, under the write lock
StoreFallback(guard, cache_key, now, payload) ==
    CacheInsert(guard, cache_key, SearchCacheEntry(now, payload))

\* the lookup under the read lock finds a fresh entry
CacheHit(guard, cache_key, now) ==
    /\ cache_key \in DOMAIN guard
    /\ saturating_sub(now, guard[cache_key].ts_ms) <= SEARCH_CACHE_TTL_MS

\* web_search answered from the cache
SearchHit(cache_key) ==
    /\ CacheHit(search_cache, cache_key, now_ms)
    /\ searched' = [path |-> "hit", key |-> cache_key]
    /\ UNCHANGED <<search_cache, now_ms>>
    /\ UNCHANGED <<regHeld, second, rep, merged, removed>>
    /\ UNCHANGED <<storeVars, syncVars, serverVars, concVars>>

\* web_search, the provider answering Ok(items)
SearchProviderOk(cache_key, payload) ==
    /\ ~ CacheHit(search_cache, cache_key, now_ms)
    /\ search_cache' \in StoreWithEviction(search_cache, cache_key, now_ms, payload)
    /\ searched' = [path |-> "provider", key |-> cache_key]
    /\ UNCHANGED now_ms
    /\ UNCHANGED <<regHeld, second, rep, merged, removed>>
    /\ UNCHANGED <<storeVars, syncVars, serverVars, concVars>>

\* web_search, the provider answering Err(msg), the fallback allowed and
\* duckduckgo_search answering Ok(items)
SearchFallbackOk(cache_key, payload) ==
    /\ ~ CacheHit(search_cache, cache_key, now_ms)
    /\ search_cache' = StoreFallback(search_cache, cache_key, now_ms, payload)
    /\ searched' = [path |-> "fallback", key |-> cache_key]
    /\ UNCHANGED now_ms
    /\ UNCHANGED <<regHeld, second, rep, merged, removed>>
    /\ UNCHANGED <<storeVars, syncVars, serverVars, concVars>>

\* web_search returning Err: the provider failed and there was no fallback,
\* or the fallback failed too
SearchError(cache_key) ==
    /\ ~ CacheHit(search_cache, cache_key, now_ms)
    /\ searched' = [path |-> "error", key |-> cache_key]
    /\ UNCHANGED <<search_cache, now_ms>>
    /\ UNCHANGED <<regHeld, second, rep, merged, removed>>
    /\ UNCHANGED <<storeVars, syncVars, serverVars, concVars>>

\* SystemTime::now() reads another value at the next call
ClockMoves ==
    /\ \E t \in 0..MaxNow : t # now_ms /\ now_ms' = t
    /\ searched' = NoSearch
    /\ UNCHANGED search_cache
    /\ UNCHANGED <<regHeld, second, rep, merged, removed>>
    /\ UNCHANGED <<storeVars, syncVars, serverVars, concVars>>

AnswerFromCache  == \E k \in CacheKeys : SearchHit(k)
AnswerFromSearch == \E k \in CacheKeys, p \in SearchPayloads : SearchProviderOk(k, p)
AnswerFromFallback == \E k \in CacheKeys, p \in SearchPayloads : SearchFallbackOk(k, p)
AnswerError      == \E k \in CacheKeys : SearchError(k)

NextSearch ==
    \/ AnswerFromCache
    \/ AnswerFromSearch
    \/ AnswerFromFallback
    \/ AnswerError
    \/ ClockMoves

SpecSearch == Init /\ [][NextSearch]_vars

----------------------------------------------------------------------------
(* The last call seen from the claims *)

Merged == last.op = "merge_full_data"

\* the user's list before the call, and the list the payload carries for the user
LocalBefore(u) == EntryOrDefault(last.pre.items_by_user, u)
Incoming(u)    == last.arg.items_by_user[u]

\* the list when the loop of merge_full_data reaches incoming item j, and when it leaves it
ListAt(u, j)    == MergeItems(LocalBefore(u), SubSeq(Incoming(u), 1, j - 1))
ListAfter(u, j) == MergeItems(LocalBefore(u), SubSeq(Incoming(u), 1, j))

Range(list) == {list[k] : k \in 1..Len(list)}

WithId(list, id) == {k \in 1..Len(list) : list[k].id = id}

UniqueIds(list) == \A j, k \in 1..Len(list) : list[j].id = list[k].id => j = k

----------------------------------------------------------------------------
(* C1 *)

\* C1: merge idempotence. After merge_full_data(I) has run, running
\* merge_full_data(I) once more leaves the users list and every user's item
\* list, order included, as they are.
C1_MergeIdempotent ==
    Merged => merge_full_data(cache, last.arg) = cache

\* a merge that appended a user, replaced an item and appended another
C1_Witness ==
    /\ Merged
    /\ Len(cache.users) > Len(last.pre.users)
    /\ \E u \in DOMAIN last.arg.items_by_user :
          /\ Len(LocalBefore(u)) > 0
          /\ cache.items_by_user[u][1] # LocalBefore(u)[1]

\* a merge of two items, replacing one and appending the other
C1_WitnessItems ==
    /\ Merged
    /\ \E u \in DOMAIN last.arg.items_by_user :
          /\ Len(LocalBefore(u)) = 1
          /\ Len(cache.items_by_user[u]) = 2
          /\ cache.items_by_user[u][1] # LocalBefore(u)[1]

----------------------------------------------------------------------------
(* C2 *)

\* the payload's list for u is two items of different ids
TwoDistinct(u) ==
    /\ Len(Incoming(u)) = 2
    /\ Incoming(u)[1].id # Incoming(u)[2].id

\* the list B-then-A leaves, where the call merged A then B
Swapped(u) == MergeItems(LocalBefore(u), <<Incoming(u)[2], Incoming(u)[1]>>)

\* C2 as claimed: for two incoming items A and B of one user with different
\* ids, merging A then B leaves that user's list as merging B then A does.
C2_CommuteDistinctIds ==
    Merged => \A u \in DOMAIN last.arg.items_by_user :
                 TwoDistinct(u) => cache.items_by_user[u] = Swapped(u)

\* C2 as amended: for two incoming items A and B of one user with different
\* ids, merging A then B and merging B then A leave lists of the same length
\* that agree on every position the local list had; the two lists are equal
\* when at least one of the two ids was in the local list, and when both are
\* new they are the local list followed by A, B and by B, A.
C2_CommuteUpToAppendOrder ==
    Merged => \A u \in DOMAIN last.arg.items_by_user :
                 TwoDistinct(u) =>
                    LET l  == LocalBefore(u)
                        A  == Incoming(u)[1]
                        B  == Incoming(u)[2]
                        ab == cache.items_by_user[u]
                        ba == Swapped(u)
                    IN  /\ Len(ab) = Len(ba)
                        /\ \A k \in 1..Len(l) : ab[k] = ba[k]
                        /\ IF Position(l, A.id) # 0 \/ Position(l, B.id) # 0
                           THEN ab = ba
                           ELSE ab = l \o <<A, B>> /\ ba = l \o <<B, A>>

\* A replaced a local item and B was appended
C2_Witness ==
    /\ Merged
    /\ \E u \in DOMAIN last.arg.items_by_user :
          /\ TwoDistinct(u)
          /\ Len(LocalBefore(u)) = 1
          /\ LocalBefore(u)[1].id = Incoming(u)[1].id
          /\ cache.items_by_user[u] = <<Incoming(u)[1], Incoming(u)[2]>>
          /\ LocalBefore(u)[1] # Incoming(u)[1]

----------------------------------------------------------------------------
(* C3 *)

\* the payload's list for u is two items A, B of one id, A the newer, and A is
\* newer than every local item of that id; a is the place of A in the payload
NewestOfTwo(u, a) ==
    LET A == Incoming(u)[a]
        B == Incoming(u)[3 - a]
    IN  /\ A.id = B.id
        /\ Ts(A) > Ts(B)
        /\ \A k \in WithId(LocalBefore(u), A.id) : Ts(A) > Ts(LocalBefore(u)[k])

\* C3: when incoming items A and B share an id and A's last_edited_at
\* (missing = 0) is greater than B's and than the local item's, the item
\* stored under that id after merging both is A, whether the payload lists A
\* then B or B then A; the merge adds no second item of that id.
C3_NewestWins ==
    Merged => \A u \in DOMAIN last.arg.items_by_user :
                 Len(Incoming(u)) = 2 =>
                    \A a \in {1, 2} :
                       NewestOfTwo(u, a) =>
                          LET A == Incoming(u)[a]
                              r == cache.items_by_user[u]
                          IN  /\ Position(r, A.id) # 0
                              /\ r[Position(r, A.id)] = A
                              /\ Cardinality(WithId(r, A.id)) =
                                    IF WithId(LocalBefore(u), A.id) = {} THEN 1
                                    ELSE Cardinality(WithId(LocalBefore(u), A.id))

\* B then A: B replaced the older local item, then A replaced B
C3_Witness ==
    /\ Merged
    /\ \E u \in DOMAIN last.arg.items_by_user :
          /\ Len(Incoming(u)) = 2
          /\ NewestOfTwo(u, 2)
          /\ Len(LocalBefore(u)) = 1
          /\ LocalBefore(u)[1].id = Incoming(u)[1].id
          /\ Ts(Incoming(u)[1]) > Ts(LocalBefore(u)[1])
          /\ cache.items_by_user[u] = <<Incoming(u)[2]>>

\* A then B: A replaced the local item and B was discarded
C3_WitnessOtherOrder ==
    /\ Merged
    /\ \E u \in DOMAIN last.arg.items_by_user :
          /\ Len(Incoming(u)) = 2
          /\ NewestOfTwo(u, 1)
          /\ Len(LocalBefore(u)) = 1
          /\ LocalBefore(u)[1].id = Incoming(u)[1].id
          /\ Ts(Incoming(u)[2]) > Ts(LocalBefore(u)[1])
          /\ cache.items_by_user[u] = <<Incoming(u)[1]>>

----------------------------------------------------------------------------
(* C4 *)

\* C4: id uniqueness after merge. After any merge_full_data call no user's
\* item list holds two items of one id.
C4_UniqueIdsAfterMerge ==
    Merged => \A u \in DOMAIN cache.items_by_user : UniqueIds(cache.items_by_user[u])

\* what merge_full_data itself keeps: a list whose ids were unique before the
\* call has unique ids after it, also when the payload repeats an id
C4_MergeKeepsUniqueIds ==
    Merged => \A u \in DOMAIN cache.items_by_user :
                 UniqueIds(LocalBefore(u)) => UniqueIds(cache.items_by_user[u])

\* a merge whose payload repeats an id, into a list with unique ids
C4_WitnessRepeatedId ==
    /\ Merged
    /\ \E u \in DOMAIN last.arg.items_by_user :
          /\ Len(Incoming(u)) = 2
          /\ Incoming(u)[1].id = Incoming(u)[2].id
          /\ UniqueIds(LocalBefore(u))
          /\ Len(cache.items_by_user[u]) = 1

----------------------------------------------------------------------------
(* C5 *)

\* C5: timestamp monotonicity. A merge_full_data call leaves every item the
\* local lists held at its place, under its id, with a last_edited_at (missing
\* = 0) that is not less than before the call.  Holding for every merge that
\* can happen, it holds along any sequence of merges.
C5_TimestampMonotone ==
    Merged => \A u \in DOMAIN last.pre.items_by_user :
                 /\ u \in DOMAIN cache.items_by_user
                 /\ Len(cache.items_by_user[u]) >= Len(LocalBefore(u))
                 /\ \A k \in 1..Len(LocalBefore(u)) :
                       /\ cache.items_by_user[u][k].id = LocalBefore(u)[k].id
                       /\ Ts(cache.items_by_user[u][k]) >= Ts(LocalBefore(u)[k])

\* a merge that replaced a local item by a newer one and discarded an older one
C5_Witness ==
    /\ Merged
    /\ \E u \in DOMAIN last.arg.items_by_user :
          /\ Len(LocalBefore(u)) = 2
          /\ Len(Incoming(u)) = 2
          /\ \E j, k \in 1..2 :
                /\ j # k
                /\ Incoming(u)[j].id = LocalBefore(u)[1].id
                /\ Ts(Incoming(u)[j]) > Ts(LocalBefore(u)[1])
                /\ Incoming(u)[k].id = LocalBefore(u)[2].id
                /\ Ts(Incoming(u)[k]) < Ts(LocalBefore(u)[2])
                /\ cache.items_by_user[u] = <<Incoming(u)[j], LocalBefore(u)[2]>>

----------------------------------------------------------------------------
(* C6 *)

\* C6: user union is non-destructive. merge_full_data leaves every record of
\* the local users list at its place and unchanged, and adds no record under
\* a username the list already had, whatever records the payload carries.
C6_LocalUsersKept ==
    Merged =>
       /\ Len(cache.users) >= Len(last.pre.users)
       /\ \A k \in 1..Len(last.pre.users) : cache.users[k] = last.pre.users[k]
       /\ \A k \in (Len(last.pre.users) + 1)..Len(cache.users) :
             ~UserExists(last.pre, cache.users[k].username)

\* a merge whose payload carries another record for a local username
C6_Witness ==
    /\ Merged
    /\ \E k \in 1..Len(last.pre.users), j \in 1..Len(last.arg.users) :
          /\ last.arg.users[j].username = last.pre.users[k].username
          /\ last.arg.users[j].password_hash # last.pre.users[k].password_hash
          /\ last.arg.users[j].created_at # last.pre.users[k].created_at
          /\ cache.users = last.pre.users

----------------------------------------------------------------------------
(* C7 *)

\* C7: new item insertion. When the merge reaches an incoming item whose id
\* is not in the user's list, the list becomes that list followed by the
\* item: every item of the list stays, unchanged and at its place.  A
\* payload of that one item leaves the local list followed by the item.
\* Whatever else the payload carries, an id that was not in the local list
\* ends behind all of it.
C7_NewItemAppended ==
    Merged => \A u \in DOMAIN last.arg.items_by_user :
                 /\ cache.items_by_user[u] = ListAfter(u, Len(Incoming(u)))
                 /\ \A j \in 1..Len(Incoming(u)) :
                       Position(LocalBefore(u), Incoming(u)[j].id) = 0 =>
                          Position(cache.items_by_user[u], Incoming(u)[j].id) > Len(LocalBefore(u))
                 /\ \A j \in 1..Len(Incoming(u)) :
                       Position(ListAt(u, j), Incoming(u)[j].id) = 0 =>
                          ListAfter(u, j) = Append(ListAt(u, j), Incoming(u)[j])
                 /\ (Len(Incoming(u)) = 1 /\ Position(LocalBefore(u), Incoming(u)[1].id) = 0) =>
                       cache.items_by_user[u] = Append(LocalBefore(u), Incoming(u)[1])

\* a new item appended to a list that held another item
C7_Witness ==
    /\ Merged
    /\ \E u \in DOMAIN last.arg.items_by_user :
          /\ Len(Incoming(u)) = 1
          /\ Len(LocalBefore(u)) = 1
          /\ LocalBefore(u)[1].id # Incoming(u)[1].id
          /\ cache.items_by_user[u] = <<LocalBefore(u)[1], Incoming(u)[1]>>

----------------------------------------------------------------------------
(* C8 *)

\* C8: local wins on tie or older incoming. When the merge reaches an
\* incoming item whose id is in the user's list and whose last_edited_at
\* (missing = 0) is not greater than that of the item found there, the list
\* stays as it is.  A payload of that one item leaves the local list as it was.
C8_LocalWinsTie ==
    Merged => \A u \in DOMAIN last.arg.items_by_user :
                 /\ cache.items_by_user[u] = ListAfter(u, Len(Incoming(u)))
                 /\ \A j \in 1..Len(Incoming(u)) :
                       LET cur == ListAt(u, j)
                           idx == Position(cur, Incoming(u)[j].id)
                       IN  (idx # 0 /\ Ts(Incoming(u)[j]) <= Ts(cur[idx])) =>
                              ListAfter(u, j) = cur
                 /\ LET idx == Position(LocalBefore(u), Incoming(u)[1].id)
                    IN  (/\ Len(Incoming(u)) = 1
                         /\ idx # 0
                         /\ Ts(Incoming(u)[1]) <= Ts(LocalBefore(u)[idx])) =>
                           cache.items_by_user[u] = LocalBefore(u)

\* local and incoming item of one id, both without last_edited_at, of
\* different content: the local one stayed
C8_Witness ==
    /\ Merged
    /\ \E u \in DOMAIN last.arg.items_by_user :
          /\ Len(Incoming(u)) = 1
          /\ Len(LocalBefore(u)) = 1
          /\ LocalBefore(u)[1].id = Incoming(u)[1].id
          /\ LocalBefore(u)[1].last_edited_at = None
          /\ Incoming(u)[1].last_edited_at = None
          /\ LocalBefore(u)[1] # Incoming(u)[1]
          /\ cache.items_by_user[u] = LocalBefore(u)

\* an incoming item older than the local one: the local one stayed
C8_WitnessOlder ==
    /\ Merged
    /\ \E u \in DOMAIN last.arg.items_by_user :
          /\ Len(Incoming(u)) = 1
          /\ Len(LocalBefore(u)) = 1
          /\ LocalBefore(u)[1].id = Incoming(u)[1].id
          /\ Ts(Incoming(u)[1]) < Ts(LocalBefore(u)[1])
          /\ cache.items_by_user[u] = LocalBefore(u)

----------------------------------------------------------------------------
(* C9 *)

\* incoming item j of user u is newer than the item the lookup finds under
\* its id in the local list
PushedNewer(u, j) ==
    LET idx == Position(LocalBefore(u), Incoming(u)[j].id)
    IN  /\ idx # 0
        /\ Ts(Incoming(u)[j]) > Ts(LocalBefore(u)[idx])

\* the GET body holds item at the place the local list had its id
Returned(u, item) ==
    LET body == response[1]
        idx  == Position(LocalBefore(u), item.id)
    IN  /\ u \in DOMAIN body.items_by_user
        /\ idx <= Len(body.items_by_user[u])
        /\ body.items_by_user[u][idx] = item

\* a POST /sync/data answered {"ok": true}, and a GET /sync/data answered
\* after it with no store call in between
PostThenGet == Merged /\ last.ok /\ response # NoResponse

\* C9 as claimed: if the node holds for a user an item of id i and
\* last_edited_at t, and a successful POST delivers for that user an item of
\* id i and last_edited_at t' > t, a later GET returns the pushed item.
C9_PushedItemReturned ==
    PostThenGet => \A u \in DOMAIN last.arg.items_by_user :
                      \A j \in 1..Len(Incoming(u)) :
                         PushedNewer(u, j) => Returned(u, Incoming(u)[j])

\* C9 as amended: the same, for a pushed item that is the only item of id i
\* in the payload's list for that user.
C9_OnlyPushedItemReturned ==
    PostThenGet => \A u \in DOMAIN last.arg.items_by_user :
                      \A j \in 1..Len(Incoming(u)) :
                         (/\ PushedNewer(u, j)
                          /\ WithId(Incoming(u), Incoming(u)[j].id) = {j}) =>
                            Returned(u, Incoming(u)[j])

\* the scenario of the spec: alice holds item "1", a newer item "1" is pushed,
\* and the GET body holds the pushed item
C9_Witness ==
    /\ PostThenGet
    /\ "alice" \in DOMAIN last.arg.items_by_user
    /\ last.arg.users = <<>>
    /\ Len(Incoming("alice")) = 1
    /\ Incoming("alice")[1].id = "1"
    /\ Len(LocalBefore("alice")) = 1
    /\ PushedNewer("alice", 1)
    /\ response[1].items_by_user["alice"] = <<Incoming("alice")[1]>>

----------------------------------------------------------------------------
(* C10 *)

\* the last event was a "peer resolved" with an address, met by an empty registry
ResolvedFromEmpty ==
    /\ lastEvent.kind = "resolved"
    /\ lastEvent.addresses # {}
    /\ DOMAIN prePeers = {}

\* the last event was a "peer removed" for the only name of the registry
RemovedTheOnlyPeer ==
    /\ lastEvent.kind = "removed"
    /\ DOMAIN prePeers = {lastEvent.fullname}

\* C10 as claimed: from an empty registry, a "peer resolved" event with name
\* N, an address and a port makes get_known_peers() return exactly one entry,
\* with that name, address and port; a following "peer removed" event for N
\* makes it return an empty list.
C10_PeerListedUnderEventName ==
    known # NoAnswer =>
       /\ ResolvedFromEmpty =>
             /\ Len(known[1]) = 1
             /\ known[1][1].name = lastEvent.fullname
             /\ known[1][1].ip \in lastEvent.addresses
             /\ known[1][1].port = lastEvent.port
       /\ RemovedTheOnlyPeer => known[1] = <<>>

\* C10 as amended: from an empty registry, a "peer resolved" event with
\* fullname N, host name H, an address and a port makes get_known_peers()
\* return exactly one entry, whose name is H, whose address is one of the
\* event's and whose port is the event's; a following "peer removed" event
\* for N makes it return an empty list.
C10_PeerListedUnderHostName ==
    known # NoAnswer =>
       /\ ResolvedFromEmpty =>
             /\ Len(known[1]) = 1
             /\ known[1][1].name = lastEvent.hostname
             /\ known[1][1].ip \in lastEvent.addresses
             /\ known[1][1].port = lastEvent.port
             /\ DOMAIN peers = {lastEvent.fullname}
       /\ RemovedTheOnlyPeer => known[1] = <<>>

\* get_known_peers() answered empty after the peer that had been resolved
\* into an empty registry was removed
C10_Witness ==
    /\ known = <<(<<>>)>>
    /\ RemovedTheOnlyPeer
    /\ prePeers[lastEvent.fullname].ip = "192.168.1.5"
    /\ prePeers[lastEvent.fullname].port = 14567

\* get_known_peers() answered with the one peer resolved into an empty registry
C10_WitnessResolved ==
    /\ known # NoAnswer
    /\ ResolvedFromEmpty
    /\ lastEvent.addresses = {"192.168.1.5"}
    /\ lastEvent.port = 14567
    /\ Len(known[1]) = 1

----------------------------------------------------------------------------
(* C11 *)

\* C11: start is idempotent. A start_server call that finds the running flag
\* set returns at once: in that step nothing is announced, no listener is
\* spawned, no socket is bound, and the running flag and the peer registry
\* stay as they are.
C11_StartWhileRunningIsNoOp ==
    [][\A c \in StartCalls :
          (srv[c].pc = "entered" /\ srv'[c].pc # "entered" /\ running) =>
             /\ srv'[c].pc = "returned"
             /\ UNCHANGED <<running, announcements, spawned, socket, peers>>]_vars

\* a call returned at the guard while the other call's listener serves
C11_Witness ==
    \E c, d \in StartCalls :
       /\ srv[c].pc = "returned"
       /\ srv[c].sawRunning
       /\ srv[c].attempts = <<>>
       /\ srv[d].pc = "serving"
       /\ running
       /\ announcements = 1
       /\ spawned = 1

----------------------------------------------------------------------------
(* C16 *)

\* C16: bind failure ends the start call without serving. A start_server
\* call whose bind failed has returned; it never set the running flag, it
\* served no request, and it tried to bind once, on the service's port only.
C16_BindFailureEndsCall ==
    \A c \in StartCalls :
       srv[c].bindFailed =>
          /\ srv[c].pc = "returned"
          /\ ~srv[c].setRunning
          /\ srv[c].served = 0
          /\ srv[c].attempts = <<Port>>

\* a call whose bind failed with no listener of this service on the port:
\* the server is not running and nothing holds the socket
C16_Witness ==
    \E c \in StartCalls :
       /\ srv[c].bindFailed
       /\ srv[c].pc = "returned"
       /\ ~running
       /\ socket = 0
       /\ starts = 1

----------------------------------------------------------------------------
(* C17 *)

\* C17 as claimed: announcement at most once. Over any sequence or
\* interleaving of start_server calls on one SyncService, mdns.register
\* succeeds at most once.
C17_AnnouncedAtMostOnce == announcements <= 1

\* the announcement is made again by a call that follows a failed bind, with
\* no other call in progress
C17_AnnouncedAgainAfterBindFailure ==
    ~(/\ announcements = 2
      /\ starts = 2
      /\ \E c \in StartCalls : srv[c].pc = "discover"
      /\ \A c \in StartCalls : srv[c].pc \in {"idle", "discover"})

----------------------------------------------------------------------------
(* C12 *)

\* every thread is in a POST whose merge has changed the cache
AllMerged ==
    \A t \in Threads : thr[t].op = "receive_data" /\ thr[t].pc \in {"save", "write", "done"}

\* the merges of the threads run one after the other in the order given
RECURSIVE MergedInOrder(_, _)
MergedInOrder(data, order) ==
    IF order = <<>> THEN data
    ELSE MergedInOrder(merge_full_data(data, thr[Head(order)].arg), Tail(order))

\* C12: concurrent pushes are serialized. When the merge_full_data calls of
\* the threads have run concurrently on the store, the cache is what running
\* them one after the other, in one of the orders, leaves; and the effects of
\* each are present: merging any of the payloads again changes nothing.
C12_ConcurrentMergesSerialized ==
    AllMerged =>
       /\ \E order \in Orders(Threads) : cache = MergedInOrder(base, order)
       /\ \A t \in Threads : merge_full_data(cache, thr[t].arg) = cache

\* two POSTs in progress together, both merged and neither persisted, whose
\* payloads the two orders merge differently
C12_Witness ==
    /\ AllMerged
    /\ \A t \in Threads : thr[t].pc = "save"
    /\ \E o1, o2 \in Orders(Threads) : MergedInOrder(base, o1) # MergedInOrder(base, o2)
    /\ cache # base

\* two POSTs in progress together carrying one id, the newer merged first
C12_WitnessSameId ==
    /\ AllMerged
    /\ \A t \in Threads : thr[t].pc = "save"
    /\ \E s, t \in Threads :
          /\ thr[s].arg.users = <<>> /\ thr[t].arg.users = <<>>
          /\ thr[s].arg.items_by_user["alice"][1].id = thr[t].arg.items_by_user["alice"][1].id
          /\ Ts(thr[s].arg.items_by_user["alice"][1]) > Ts(thr[t].arg.items_by_user["alice"][1])
          /\ thr[t].post = thr[s].post
          /\ thr[s].post # base

----------------------------------------------------------------------------
(* C13 *)

\* C13 as claimed: mutation and persistence are one atomic step. Between the
\* in-memory change of a mutating operation and its own write to disk no
\* other mutation takes effect: the cache the operation left is the cache
\* until its write is done.
C13_NoMutationBeforePersist ==
    \A t \in Threads : thr[t].pc \in {"save", "write"} => cache = thr[t].post

\* the lock is held from the in-memory change through the write
C13_LockHeldUntilPersisted ==
    \A t \in Threads : thr[t].pc \in {"save", "write"} => lock = t

----------------------------------------------------------------------------
(* C14 *)

\* a POST /sync/data whose write to disk failed
PostWriteFailed(t) ==
    /\ thr[t].op = "receive_data"
    /\ thr[t].pc = "done"
    /\ thr[t].ret = "Err"

\* C14: POST fails when the store write fails. A POST /sync/data whose
\* write failed is not answered {"ok": true}: the handler panics, and the
\* write was tried once.
C14_PostFailsOnWriteFailure ==
    \A t \in Threads :
       PostWriteFailed(t) =>
          /\ thr[t].reply = "panic"
          /\ thr[t].reply # "ok_true"
          /\ thr[t].writes = 1

\* a POST whose merge changed the cache and whose write failed, alone
C14_Witness ==
    \E t \in Threads :
       /\ PostWriteFailed(t)
       /\ thr[t].reply = "panic"
       /\ thr[t].post # base
       /\ cache = thr[t].post
       /\ \A s \in Threads \ {t} : thr[s].pc = "idle"

----------------------------------------------------------------------------
(* C15 *)

\* C15: GET always answers with the current snapshot. A step that answers
\* GET /sync/data answers with the cache as it is, with the default
\* CollectionData when the store is empty, and leaves the cache as it is.
C15_GetAnswersSnapshot ==
    [][response' # NoResponse =>
          /\ response' = <<cache>>
          /\ cache = DefaultCollectionData => response' = <<DefaultCollectionData>>
          /\ cache' = cache]_vars

\* a GET answered with a full store, after the last call returned
C15_Witness ==
    /\ Idle
    /\ response = <<cache>>
    /\ Size(cache) = MaxStore
    /\ cache.users # <<>>
    /\ DOMAIN cache.items_by_user # {}

\* a GET answered by the empty store
C15_WitnessEmpty ==
    /\ Idle
    /\ cache = DefaultCollectionData
    /\ response = <<DefaultCollectionData>>

----------------------------------------------------------------------------
(* C18 *)

\* C18: no expiry of peers. A name leaves the registry only in the step that
\* handles a "peer removed" event for that name, and enters it, or gets
\* another entry, only in the step that handles a "peer resolved" event for
\* that name; the passage of time and get_known_peers leave the registry as
\* it is.
C18_NoExpiry ==
    [][/\ \A n \in DOMAIN peers \ DOMAIN peers' :
             /\ lastEvent' = [kind |-> "removed", fullname |-> n]
             /\ prePeers' = peers
       /\ \A n \in DOMAIN peers' :
             (n \notin DOMAIN peers \/ peers'[n] # peers[n]) =>
                /\ lastEvent'.kind = "resolved"
                /\ lastEvent'.fullname = n
                /\ prePeers' = peers
       /\ clock' # clock => peers' = peers
       /\ known' # NoAnswer => peers' = peers]_vars

\* a peer resolved before the clock moved is still listed after an ignored
\* event and the answer of get_known_peers
C18_Witness ==
    /\ lastEvent.kind = "other"
    /\ known # NoAnswer
    /\ Len(known[1]) = 1
    /\ \E n \in DOMAIN peers : peers[n].last_seen < clock

\* a peer removed by its event while another, older one stays
C18_WitnessRemoved ==
    /\ lastEvent.kind = "removed"
    /\ lastEvent.fullname \in DOMAIN prePeers
    /\ DOMAIN peers = DOMAIN prePeers \ {lastEvent.fullname}
    /\ \E n \in DOMAIN peers : peers[n].last_seen < clock

----------------------------------------------------------------------------
(* C19 *)

\* C19: replace in place. When the merge reaches an incoming item whose id
\* is in the user's list and whose last_edited_at (missing = 0) is greater
\* than that of the item found there, the incoming item takes that item's
\* index; the length of the list and every other item stay.  A payload of
\* that one item leaves the local list with the item at that index.
C19_ReplacedInPlace ==
    Merged => \A u \in DOMAIN last.arg.items_by_user :
                 /\ cache.items_by_user[u] = ListAfter(u, Len(Incoming(u)))
                 /\ \A j \in 1..Len(Incoming(u)) :
                       LET cur   == ListAt(u, j)
                           after == ListAfter(u, j)
                           idx   == Position(cur, Incoming(u)[j].id)
                       IN  (idx # 0 /\ Ts(Incoming(u)[j]) > Ts(cur[idx])) =>
                              /\ Len(after) = Len(cur)
                              /\ after[idx] = Incoming(u)[j]
                              /\ \A k \in 1..Len(cur) : k # idx => after[k] = cur[k]
                 /\ LET idx == Position(LocalBefore(u), Incoming(u)[1].id)
                    IN  (Len(Incoming(u)) = 1 /\ PushedNewer(u, 1)) =>
                           /\ Len(cache.items_by_user[u]) = Len(LocalBefore(u))
                           /\ cache.items_by_user[u][idx] = Incoming(u)[1]
                           /\ \A k \in 1..Len(LocalBefore(u)) :
                                 k # idx => cache.items_by_user[u][k] = LocalBefore(u)[k]

\* the second of two local items replaced by a newer incoming item
C19_Witness ==
    /\ Merged
    /\ \E u \in DOMAIN last.arg.items_by_user :
          /\ Len(Incoming(u)) = 1
          /\ Len(LocalBefore(u)) = 2
          /\ Position(LocalBefore(u), Incoming(u)[1].id) = 2
          /\ PushedNewer(u, 1)
          /\ cache.items_by_user[u] = <<LocalBefore(u)[1], Incoming(u)[1]>>

----------------------------------------------------------------------------
(* C20 *)

\* the items of seq at the indices of keep, in order, from index k on
RECURSIVE PickFrom(_, _, _)
PickFrom(seq, keep, k) ==
    IF k > Len(seq) THEN <<>>
    ELSE (IF k \in keep THEN <<seq[k]>> ELSE <<>>) \o PickFrom(seq, keep, k + 1)

\* the incoming records whose username the local list does not hold, the
\* first of each username
NewUsers(local, incoming) ==
    PickFrom(incoming,
             {k \in 1..Len(incoming) :
                 /\ \A j \in 1..Len(local) : local[j].username # incoming[k].username
                 /\ \A j \in 1..(k - 1) : incoming[j].username # incoming[k].username},
             1)

UniqueUsernames(users) ==
    \A j, k \in 1..Len(users) : users[j].username = users[k].username => j = k

\* C20: user merge step. After merge_full_data the users list is the local
\* users in their order followed by the incoming records whose username was
\* not present, the first record of each new username in incoming order; if
\* usernames were unique before the merge they are unique after it.
C20_UsersAppendedOnce ==
    Merged =>
       /\ cache.users = last.pre.users \o NewUsers(last.pre.users, last.arg.users)
       /\ UniqueUsernames(last.pre.users) => UniqueUsernames(cache.users)

\* a payload with two different records of one new username, merged into a
\* store that held another user: the first of the two was appended
C20_Witness ==
    /\ Merged
    /\ Len(last.pre.users) = 1
    /\ Len(last.arg.users) = 2
    /\ last.arg.users[1].username = last.arg.users[2].username
    /\ last.arg.users[1] # last.arg.users[2]
    /\ last.arg.users[1].username # last.pre.users[1].username
    /\ cache.users = <<last.pre.users[1], last.arg.users[1]>>

----------------------------------------------------------------------------
(* C26 *)

\* C26 as claimed: id uniqueness under every store operation. From the empty
\* store, after any sequence of add_item_for_user, remove_item_for_user,
\* import_for_user, reorder_items_for_user and merge_full_data calls, no
\* user's list holds two items of one id.
C26_UniqueIdsAlways ==
    \A u \in DOMAIN cache.items_by_user : UniqueIds(cache.items_by_user[u])

\* what every operation but import_for_user keeps: a list whose ids were
\* unique before the call has unique ids after it
C26_OthersKeepUniqueIds ==
    (last.op \notin {"none", "import_for_user"}) =>
       \A u \in DOMAIN cache.items_by_user :
          UniqueIds(EntryOrDefault(last.pre.items_by_user, u)) => UniqueIds(cache.items_by_user[u])

----------------------------------------------------------------------------
(* C29 *)

\* the ids of new_order_ids that the list holds, each at its first occurrence
NamedFirst(list, new_order_ids) ==
    PickFrom(new_order_ids,
             {k \in 1..Len(new_order_ids) :
                 /\ Position(list, new_order_ids[k]) # 0
                 /\ \A j \in 1..(k - 1) : new_order_ids[j] # new_order_ids[k]},
             1)

\* C29: reorder is a permutation. For a user whose list has unique ids,
\* reorder_items_for_user(new_order_ids) leaves a list of the same items,
\* none lost, added or altered, that begins with the items named in
\* new_order_ids in the order of their first occurrence there; the items not
\* named follow.  For a user with no list it changes nothing.  The users and
\* the other lists stay as they are.
C29_ReorderIsPermutation ==
    last.op = "reorder_items_for_user" =>
       LET u == last.arg.username
       IN  IF u \notin DOMAIN last.pre.items_by_user
           THEN cache = last.pre
           ELSE /\ cache.users = last.pre.users
                /\ DOMAIN cache.items_by_user = DOMAIN last.pre.items_by_user
                /\ \A v \in DOMAIN cache.items_by_user \ {u} :
                      cache.items_by_user[v] = last.pre.items_by_user[v]
                /\ UniqueIds(LocalBefore(u)) =>
                      LET before == LocalBefore(u)
                          after  == cache.items_by_user[u]
                          named  == NamedFirst(before, last.arg.new_order_ids)
                      IN  /\ Len(after) = Len(before)
                          /\ Range(after) = Range(before)
                          /\ \A k \in 1..Len(named) : after[k].id = named[k]
                          /\ \A k \in (Len(named) + 1)..Len(after) :
                                \A j \in 1..Len(last.arg.new_order_ids) :
                                   last.arg.new_order_ids[j] # after[k].id

\* a list of two items reordered by naming the second, twice: it comes first
\* and the item not named follows
C29_Witness ==
    /\ last.op = "reorder_items_for_user"
    /\ Len(LocalBefore(last.arg.username)) = 2
    /\ UniqueIds(LocalBefore(last.arg.username))
    /\ last.arg.new_order_ids = <<LocalBefore(last.arg.username)[2].id,
                                  LocalBefore(last.arg.username)[2].id>>
    /\ cache.items_by_user[last.arg.username] =
          <<LocalBefore(last.arg.username)[2], LocalBefore(last.arg.username)[1]>>

\* a reorder for a user with no list, in a store that holds another list
C29_WitnessNoList ==
    /\ last.op = "reorder_items_for_user"
    /\ last.arg.username \notin DOMAIN last.pre.items_by_user
    /\ DOMAIN last.pre.items_by_user # {}
    /\ last.arg.new_order_ids # <<>>

----------------------------------------------------------------------------
(* C30 *)

\* C30: local save is an upsert at the front. After add_item_for_user(u,
\* item), u's list has item at its head and no other item of item's id, and
\* behind the head the items of the other ids, unchanged and in their order,
\* whatever the last_edited_at of the item replaced.
C30_SaveIsUpsertAtFront ==
    last.op = "add_item_for_user" =>
       LET u      == last.arg.username
           item   == last.arg.item
           before == LocalBefore(u)
           after  == cache.items_by_user[u]
       IN  /\ Len(after) >= 1
           /\ after[1] = item
           /\ \A k \in 2..Len(after) : after[k].id # item.id
           /\ Tail(after) = PickFrom(before, {k \in 1..Len(before) : before[k].id # item.id}, 1)

\* an item saved over a stored item of its id that was edited later and
\* stood second in the list
C30_Witness ==
    /\ last.op = "add_item_for_user"
    /\ Len(LocalBefore(last.arg.username)) = 2
    /\ LocalBefore(last.arg.username)[2].id = last.arg.item.id
    /\ LocalBefore(last.arg.username)[1].id # last.arg.item.id
    /\ Ts(LocalBefore(last.arg.username)[2]) > Ts(last.arg.item)
    /\ cache.items_by_user[last.arg.username] = <<last.arg.item, LocalBefore(last.arg.username)[1]>>

----------------------------------------------------------------------------
(* C21 *)

\* the call of thread s has changed the cache, or returned without
ChangedCache(s) == thr[s].pc \in {"save", "write", "done"}

\* the caches that the in-memory parts of calls of the threads of S, each run
\* at most once and in any order, may make of data
RECURSIVE ReachedBy(_, _)
ReachedBy(data, S) ==
    {data} \cup UNION {UNION {ReachedBy(d, S \ {s}) : d \in After(thr[s].op, thr[s].arg, data)} :
                         s \in S}

\* C21: persist before success. When merge_full_data has returned Ok, and so
\* whenever POST /sync/data is answered {"ok": true}, one write of the file
\* has completed in that call, and what it wrote is the cache the merge left,
\* with the changes other calls made to it since; when no other call is in
\* progress it is the cache the merge left, which holds all of the payload.
C21_PersistBeforeSuccess ==
    \A t \in Threads :
       thr[t].op = "receive_data" /\ thr[t].pc = "done" =>
          /\ thr[t].reply = "ok_true" => thr[t].ret = "Ok"
          /\ thr[t].ret = "Ok" =>
                /\ thr[t].writes = 1
                /\ thr[t].wrote # <<>>
                /\ thr[t].wrote[1] \in
                      ReachedBy(thr[t].post, {s \in Threads \ {t} : ChangedCache(s)})
                /\ (\A s \in Threads \ {t} : thr[s].pc = "idle") =>
                      /\ thr[t].wrote = <<thr[t].post>>
                      /\ disk = Written(thr[t].post)
                      /\ merge_full_data(thr[t].wrote[1], thr[t].arg) = thr[t].wrote[1]

\* a POST answered {"ok": true} with no other call in progress: the file
\* holds the merged cache, which is not the cache the call met
C21_Witness ==
    \E t \in Threads :
       /\ thr[t].op = "receive_data"
       /\ thr[t].pc = "done"
       /\ thr[t].reply = "ok_true"
       /\ \A s \in Threads \ {t} : thr[s].pc = "idle"
       /\ disk = Written(cache)
       /\ cache # base

\* a POST answered {"ok": true} whose write holds the change another call
\* made between the merge and the write
C21_WitnessInterleaved ==
    \E t \in Threads :
       /\ thr[t].op = "receive_data"
       /\ thr[t].pc = "done"
       /\ thr[t].reply = "ok_true"
       /\ thr[t].wrote # <<thr[t].post>>

----------------------------------------------------------------------------
(* C27 *)

\* no store operation is in progress
AtRest == \A t \in Threads : thr[t].pc \in {"idle", "done"}

\* C27: disk matches memory at rest. Whenever no store operation is in
\* progress and no write has failed so far, the file holds the cache; while
\* no write has been made the cache is the empty collection the store began
\* with.
C27_DiskMatchesMemoryAtRest ==
    (AtRest /\ ~writesFailed) =>
       IF disk = NoFile THEN cache = DefaultCollectionData
                        ELSE disk = Written(cache)

\* two calls at rest after the second changed the cache between the first's
\* change and the first's write: the file holds the cache
C27_Witness ==
    /\ AtRest
    /\ ~writesFailed
    /\ disk = Written(cache)
    /\ \E s \in Threads :
          /\ thr[s].pc = "done"
          /\ thr[s].ret = "Ok"
          /\ thr[s].post # cache
          /\ thr[s].wrote = <<cache>>

----------------------------------------------------------------------------
(* C25 *)

\* a thread is inside a call
Busy(t) == thr[t].pc \in {"lock", "mutate", "save", "write", "peers"}

\* C25: locks never nest. No thread holds the store mutex and the registry
\* lock together: who holds the registry lock is the listener or a thread
\* inside get_known_peers, who holds the mutex is inside the locked part of a
\* store operation.  No thread asks for the mutex while holding it.  So no
\* deadlock: while a call is in progress some call in progress can take its
\* next step, and the listener can always take or release the registry lock
\* once the readers have returned.
C25_LocksNeverNest ==
    /\ lock \notin regHeld
    /\ \A t \in regHeld \cap Threads : thr[t].pc = "peers"
    /\ lock # 0 => thr[lock].pc \in {"mutate", "write"}
    /\ \A t \in Threads : thr[t].pc \in {"lock", "save"} => lock # t
    /\ (\E t \in Threads : Busy(t)) =>
          ENABLED (TakeLock \/ ChangeCache \/ TakeLockToSave \/ WriteFile \/ ReadPeersDone)
    /\ ENABLED (ListenerLock \/ ListenerUnlock \/ ReadPeersDone)

\* the mutex held by a thread writing the file, the other thread waiting for
\* it in save(), and the listener holding the registry lock
C25_Witness ==
    /\ regHeld = {ListenerThread}
    /\ \E s, t \in Threads :
          /\ lock = s
          /\ thr[s].pc = "write"
          /\ thr[t].pc = "save"

\* a thread inside get_known_peers while another holds the mutex
C25_WitnessReader ==
    \E s, t \in Threads :
       /\ lock = s
       /\ thr[s].pc = "mutate"
       /\ regHeld = {t}

----------------------------------------------------------------------------
(* C24 *)

\* C24: discovery stream failure freezes the registry.  Once the listener's
\* receiver.recv() has failed and its loop has ended, no step changes the
\* registry, and get_known_peers answers with the entries of that registry.
C24_FailureFreezesRegistry ==
    [][listener = "dead" =>
          /\ peers' = peers
          /\ known' # NoAnswer => known'[1] \in Snapshots(peers)]_vars

\* the same with no listener left: while no discovery thread runs, no step
\* changes the registry, and get_known_peers answers with its entries
C24_FrozenWithoutListeners ==
    [][(listener # "running" /\ second # "running") =>
          /\ peers' = peers
          /\ known' # NoAnswer => known'[1] \in Snapshots(peers)]_vars

\* the only listener has failed with a peer in the registry, and
\* get_known_peers has answered with it
C24_WitnessOneListener ==
    /\ listener = "dead"
    /\ second = "none"
    /\ peers # <<>>
    /\ known # NoAnswer
    /\ Len(known[1]) = 1

----------------------------------------------------------------------------
(* C22, C23 *)

\* the items of a user's list that have the id
VersionsOf(data, u, id) ==
    LET list == EntryOrDefault(data.items_by_user, u)
    IN  {list[k] : k \in WithId(list, id)}

\* the greatest last_edited_at.unwrap_or(0) among the items of the id
Newest(data, u, id) ==
    LET list == EntryOrDefault(data.items_by_user, u)
    IN  CHOOSE t \in {Ts(list[k]) : k \in WithId(list, id)} :
           \A k \in WithId(list, id) : Ts(list[k]) <= t

\* C22: deletions do not propagate.  A merge removes no item from any local
\* list: every list is as long as before or longer and has at every old
\* place an item of the same id.  An item removed locally with
\* remove_item_for_user is in the user's list again after the merge of
\* incoming data that holds an item of its id.
C22_DeletionsDoNotPropagate ==
    [][\A r \in merged' \ merged :
          /\ \A u \in DOMAIN rep[r].items_by_user :
                /\ u \in DOMAIN rep'[r].items_by_user
                /\ Len(rep'[r].items_by_user[u]) >= Len(rep[r].items_by_user[u])
                /\ \A k \in 1..Len(rep[r].items_by_user[u]) :
                      rep'[r].items_by_user[u][k].id = rep[r].items_by_user[u][k].id
          /\ \A p \in removed[r] :
                p[2] \in IdsOf(rep[Other(r)], p[1]) => p[2] \in IdsOf(rep'[r], p[1])]_vars

\* node r removed an item, the other node still had one of that id, and
\* after the merge r has it again
C22_Witness ==
    \E r \in merged : \E p \in removed[r] :
       /\ Other(r) \notin merged
       /\ p[2] \in IdsOf(rep[Other(r)], p[1])
       /\ p[2] \in IdsOf(rep[r], p[1])

\* C23: replica convergence.  Once the data of X has been merged into Y and
\* the data of Y into X, with no local edit since, X and Y hold for every
\* user the same ids and for every id the same item version.
C23_ReplicasConverge ==
    merged = Replicas =>
       \A u \in Usernames :
          /\ IdsOf(rep["X"], u) = IdsOf(rep["Y"], u)
          /\ \A id \in Ids : VersionsOf(rep["X"], u, id) = VersionsOf(rep["Y"], u, id)

\* what the exchange does reach: the same ids on both nodes, and for every
\* id the same greatest last_edited_at
C23_SameIdsAndNewest ==
    merged = Replicas =>
       \A u \in Usernames :
          /\ IdsOf(rep["X"], u) = IdsOf(rep["Y"], u)
          /\ \A id \in IdsOf(rep["X"], u) : Newest(rep["X"], u, id) = Newest(rep["Y"], u, id)

\* where no node holds an id twice and no two versions differ at one
\* last_edited_at, the nodes hold the same version
C23_ConvergeWithoutTies ==
    merged = Replicas =>
       \A u \in Usernames : \A id \in Ids :
          \/ VersionsOf(rep["X"], u, id) = VersionsOf(rep["Y"], u, id)
          \/ \E x \in VersionsOf(rep["X"], u, id), y \in VersionsOf(rep["Y"], u, id) :
                x # y /\ Ts(x) = Ts(y)
          \/ ~ UniqueIds(EntryOrDefault(rep["X"].items_by_user, u))
          \/ ~ UniqueIds(EntryOrDefault(rep["Y"].items_by_user, u))

----------------------------------------------------------------------------
(* C28 *)

\* C28: the search cache is bounded.  After any sequence of web_search
\* calls, whichever path stored the result, the cache holds at most
\* SEARCH_CACHE_MAX_ENTRIES entries.
C28_SearchCacheBounded ==
    Cardinality(DOMAIN search_cache) <= SEARCH_CACHE_MAX_ENTRIES

\* the bound as the provider success arm leaves it: right after a store on
\* that path the cache holds at most SEARCH_CACHE_MAX_ENTRIES entries
C28_BoundedAfterProviderStore ==
    searched.path = "provider" => Cardinality(DOMAIN search_cache) <= SEARCH_CACHE_MAX_ENTRIES

\* the provider arm has evicted: the cache is full and the key just stored
\* for is one of few left
C28_WitnessEviction ==
    /\ searched.path = "provider"
    /\ Cardinality(DOMAIN search_cache) = SEARCH_CACHE_MAX_ENTRIES
    /\ searched.key \notin DOMAIN search_cache

=============================================================================
